---- MODULE Spec2Model ----
(***************************************************************************)
(* Payload relay of the NFC logistics bridge.                              *)
(*                                                                         *)
(* Part I   CarrierBridge of src/receiver_bridge.py: the framed socket     *)
(*          handler, the signature validator, the SQLite transaction store *)
(*          and the SAP / completion steps of process_delivery.            *)
(* Part II  ReceiverServer and BlueShipsSyncBridge of                      *)
(*          src/nfc-logistics-system/backend/receiver_bridge.py.           *)
(* Part III The completion listener of ShipperBridge (src/shipper.py), to  *)
(*          which CarrierBridge._notify_shipper_completion connects.       *)
(***************************************************************************)
EXTENDS Integers, Sequences, FiniteSets, TLC

(***************************************************************************)
(* Bounds of the model.                                                    *)
(***************************************************************************)
\* connections accepted by a listener (one handler thread each)
MaxConns == 2
\* distinct document bodies a payload may carry
MaxBody == 2

Conns == 1..MaxConns
Bodies == 1..MaxBody
TxnIds == {"TXN-1", "TXN-2"}

\* a key that is absent from a JSON object, and Python's None
None == "None"

(***************************************************************************)
(* Part I.  CarrierBridge (src/receiver_bridge.py)                         *)
(***************************************************************************)

VARIABLES
    provisioned,          \* what was at trusted_shippers_path before the bridge started
    trusted_shippers_file,\* what is at trusted_shippers_path now
    trusted_certificates, \* SignatureValidator.trusted_certificates (sender ids)
    transactions,         \* table transactions: transaction_id -> row | None
    audit_log,            \* table audit_log, in insertion order
    hpc,                  \* position of each handler thread
    stream,               \* what the client of each connection puts on the wire
    payload,              \* the handler's parsed payload (mutated by process_delivery)
    stored,               \* return value of store_transaction in the handler
    updated,              \* return value of update_transaction_status in the handler
    success,              \* return value of process_delivery in the handler
    sent,                 \* the bytes the handler wrote to its connection
    sap_calls,            \* requests the SAP system has received
    notifications,        \* completion messages sent towards the shipper
    running,              \* CarrierBridge.running
    server_pc             \* position of the thread of _run_bridge_server

cbvars == <<trusted_certificates, transactions, audit_log, hpc, stream,
            payload, stored, updated, success, sent, sap_calls, notifications,
            running, server_pc>>

\* the registry file; no step of a running bridge touches it
regvars == <<provisioned, trusted_shippers_file>>

\* Part II: ReceiverServer and BlueShipsSyncBridge
VARIABLES
    active_transactions,    \* BlueShipsSyncBridge.active_transactions
    processed_transactions, \* ReceiverServer.processed_transactions
    websocket_clients,      \* carriers connected by websocket
    goods_receipts,         \* goods receipts created by SAPIntegration
    rs_pc,                  \* position of each connection handler thread
    rs_msg,                 \* listener and bytes of each connection
    rs_sent,                \* responses the handler wrote to its connection
    client                  \* position of the client of each connection

rsvars == <<active_transactions, processed_transactions, websocket_clients,
            goods_receipts, rs_pc, rs_msg, rs_sent, client>>

\* Part III: ShipperBridge.start_completion_listener
VARIABLES
    cl_state,   \* each connection at the listening socket: idle, queued, accepted, closed
    cl_notice,  \* what the client of each connection sends
    cl_pc,      \* position of the listener loop (one thread)
    cl_cur,     \* the connection the loop is working on (0: none)
    cl_sent,    \* the bytes the listener wrote to each connection
    notifier,   \* position of the client of each connection
    erp_orders  \* status of each order in the shipper's ERP

clvars == <<cl_state, cl_notice, cl_pc, cl_cur, cl_sent, notifier, erp_orders>>

\* Part IV: ShipperBridge.process_shipment
VARIABLES
    ps_erp,     \* status of each sales order in the ERP (Infor SyteLine)
    ps_pc,      \* position of process_shipment
    ps_order,   \* order_number of the call in progress
    ps_reply,   \* what send_to_carrier read from the carrier bridge, per order
    ps_result   \* return value of process_shipment, per order

psvars == <<ps_erp, ps_pc, ps_order, ps_reply, ps_result>>

\* Part V: ERPIntegrationBase._make_request
VARIABLES
    mr_retry_attempts, \* self.config.retry_attempts
    mr_pc,             \* position of _make_request
    mr_attempt,        \* the loop variable attempt
    mr_log,            \* the warnings logged, one per failed attempt
    mr_result          \* what the call returned or raised

mrvars == <<mr_retry_attempts, mr_pc, mr_attempt, mr_log, mr_result>>

\* the shipper side
shvars == <<psvars, mrvars>>

\* datetime.now() in handler c: instants of different handlers differ
Now(c) == c

\* number of bytes of the length prefix
PrefixLen == 4
\* announced body length of the frames of the model (abstract bytes), but
\* for the one frame that announces more
BodyLen == 2

(***************************************************************************)
(* Payloads a carrier can submit.  A payload is the JSON object of         *)
(* test_system.py create_test_payload reduced to the keys the bridge       *)
(* reads: transaction_id, status, shipper_erp.id, digital_signature and    *)
(* the rest of the document (body).                                        *)
(***************************************************************************)
GoodPayload(tid, b) ==
    [transaction_id |-> tid, status |-> "initiated", shipper_id |-> "SHIPPER001",
     algorithm |-> "RSA-SHA256", signature |-> "sig", body |-> b]

\* transaction TXN-1 is submitted with two different documents
CBPayloads ==
    { GoodPayload("TXN-1", b) : b \in {1, MaxBody} }
    \cup { GoodPayload("TXN-2", 1) }
    \cup { [GoodPayload("TXN-1", 1) EXCEPT !.shipper_id = "SHIPPER999"],
           [GoodPayload("TXN-1", 1) EXCEPT !.signature = None],
           [GoodPayload("TXN-1", 1) EXCEPT !.status = None],
           [GoodPayload("TXN-1", 1) EXCEPT !.transaction_id = None],
           [GoodPayload("TXN-1", 1) EXCEPT !.algorithm = "ROT13", !.status = None] }

NoPayload == [transaction_id |-> None, status |-> None, shipper_id |-> None,
              algorithm |-> None, signature |-> None, body |-> 0]

(***************************************************************************)
(* What a client puts on the wire of one connection.                       *)
(*   first   bytes returned by the handler's first recv(4)                 *)
(*   announced  the body length that the 4-byte prefix announces           *)
(*   body    body bytes that arrive before the client stops sending        *)
(*   open    the client keeps its socket open after its last byte          *)
(*   content what the body bytes decode to                                 *)
(***************************************************************************)
Frame(first, body, open, content, p) ==
    [first |-> first, announced |-> BodyLen, body |-> body, open |-> open,
     content |-> content, payload |-> p]

\* ShipperBridge.send_to_carrier sent the whole frame of a payload, and the
\* transport hands the first two bytes of the prefix to the first recv(4)
SplitPrefixFrame == Frame(2, BodyLen, TRUE, "json_object", GoodPayload("TXN-1", 1))

\* a whole frame that announces, and carries, more than BodyLen bytes
OversizedFrame ==
    [Frame(PrefixLen, BodyLen + 1, TRUE, "not_json", NoPayload)
        EXCEPT !.announced = BodyLen + 1]

StreamsCB ==
    { Frame(0, 0, o, "none", NoPayload) : o \in BOOLEAN }
    \cup { Frame(2, 0, FALSE, "none", NoPayload) }
    \cup { Frame(PrefixLen, BodyLen - 1, o, "none", NoPayload) : o \in BOOLEAN }
    \cup { Frame(PrefixLen, BodyLen, TRUE, k, NoPayload) :
             k \in {"not_utf8", "not_json", "json_list"} }
    \cup { Frame(PrefixLen, BodyLen, TRUE, "json_object", p) : p \in CBPayloads }
    \cup { SplitPrefixFrame, OversizedFrame }

NoStream == Frame(0, 0, FALSE, "none", NoPayload)

\* a row of table transactions; timestamp 0 is SQL NULL
Row(p, st, recv_ts, proc_ts) ==
    [payload |-> p, status |-> st, received_timestamp |-> recv_ts,
     processed_timestamp |-> proc_ts]

\* no row under a transaction_id
NoRow == Row(NoPayload, None, 0, 0)

(***************************************************************************)
(* The file at trusted_shippers_path: absent, not readable as JSON, or a   *)
(* JSON object whose keys are the trusted shipper ids.                     *)
(***************************************************************************)
RegistryFile(state, ids) == [state |-> state, ids |-> ids]

\* default_trusted of _load_trusted_certificates
DefaultTrusted == {"SHIPPER001"}

ProvisionedFiles ==
    { RegistryFile("missing", {}), RegistryFile("unreadable", {}) }
    \cup { RegistryFile("present", ids) : ids \in {{}, {"SHIPPER001"}, {"SHIPPER999"}} }

(***************************************************************************)
(* SignatureValidator._load_trusted_certificates: an existing file is      *)
(* loaded; a missing file is created with default_trusted, which is then   *)
(* returned; any exception (the file cannot be read or parsed, or the      *)
(* default file cannot be written: write_ok = FALSE) returns {}.           *)
(***************************************************************************)
load_trusted_certificates(f, write_ok) ==
    CASE f.state = "present" -> f.ids
      [] f.state = "missing" /\ write_ok -> DefaultTrusted
      [] OTHER -> {}

\* the file that _load_trusted_certificates leaves behind
file_after_load(f, write_ok) ==
    IF f.state = "missing" /\ write_ok
    THEN RegistryFile("present", DefaultTrusted)
    ELSE f

\* CarrierBridge.__init__ with file f at trusted_shippers_path
StartCB(f, write_ok) ==
    /\ provisioned = f
    /\ trusted_shippers_file = file_after_load(f, write_ok)
    /\ trusted_certificates = load_trusted_certificates(f, write_ok)
    /\ transactions = [t \in TxnIds |-> NoRow]
    /\ audit_log = <<>>
    /\ hpc = [c \in Conns |-> "listen"]
    /\ stream = [c \in Conns |-> NoStream]
    /\ payload = [c \in Conns |-> NoPayload]
    /\ stored = [c \in Conns |-> None]
    /\ updated = [c \in Conns |-> None]
    /\ success = [c \in Conns |-> None]
    /\ sent = [c \in Conns |-> <<>>]
    /\ sap_calls = {}
    /\ notifications = {}
    /\ running = TRUE
    /\ server_pc = "accept"

\* the bridge started with a registry that names SHIPPER001
InitCB == StartCB(RegistryFile("present", {"SHIPPER001"}), TRUE)

(***************************************************************************)
(* SignatureValidator.validate_signature                                   *)
(***************************************************************************)
validate_signature(p, trusted) ==
    IF (p.algorithm = None /\ p.signature = None) \/ p.shipper_id = None
    THEN FALSE
    ELSE IF p.shipper_id \notin trusted
    THEN FALSE
    ELSE p.algorithm # None /\ p.signature # None

(***************************************************************************)
(* DatabaseManager.log_audit opens a connection of its own and inserts     *)
(* one audit_log row.  sqlite3 admits one writer: while another connection *)
(* holds an uncommitted write (writer_open) the insert ends in "database   *)
(* is locked", which log_audit catches and logs, and no row is written.    *)
(***************************************************************************)
log_audit(log, tid, action, now, writer_open) ==
    IF writer_open
    THEN log
    ELSE Append(log, [transaction_id |-> tid, action |-> action, timestamp |-> now])

(***************************************************************************)
(* DatabaseManager.store_transaction: INSERT OR REPLACE keyed by           *)
(* transaction_id, then log_audit inside the still open write.             *)
(* payload['status'] raises KeyError when the key is absent; io_ok = FALSE *)
(* is any sqlite3 error.  Either way the method returns False and the      *)
(* write is rolled back.                                                   *)
(***************************************************************************)
store_succeeds(p, io_ok) == p.transaction_id # None /\ p.status # None /\ io_ok

\* store_transaction returning before its write is committed
store_transaction_uncommitted(table, p, now) == table

store_transaction(table, p, now) ==
    [table EXCEPT ![p.transaction_id] = Row(p, p.status, now, 0)]

(***************************************************************************)
(* DatabaseManager.update_transaction_status: UPDATE ... WHERE             *)
(* transaction_id = ?, any status value, no check of the current status.   *)
(***************************************************************************)
\* update_transaction_status clearing a transaction out once it is confirmed
update_transaction_status_purging(table, tid, status, now) ==
    IF table[tid] = NoRow
    THEN table
    ELSE IF status = "confirmed"
    THEN [table EXCEPT ![tid] = NoRow]
    ELSE [table EXCEPT ![tid].status = status, ![tid].processed_timestamp = now]

update_transaction_status(table, tid, status, now) ==
    IF table[tid] = NoRow
    THEN table
    ELSE [table EXCEPT ![tid].status = status, ![tid].processed_timestamp = now]

\* DatabaseManager.get_transaction: json.loads of the column payload, which
\* holds json.dumps(payload) as store_transaction wrote it
get_transaction(table, tid) == table[tid].payload

\* DatabaseManager.get_pending_transactions: the payloads of the rows whose
\* column status is 'delivered' or 'in_transit'
get_pending_transactions(table) ==
    { table[t].payload : t \in { u \in TxnIds : table[u].status \in {"delivered", "in_transit"} } }

(***************************************************************************)
(* CarrierBridge._run_bridge_server, one turn of `while self.running`: the *)
(* thread waits in sock.accept() (no timeout), a connection arrives, its   *)
(* handler thread is started, and only then is self.running read again:    *)
(* when it is False the loop ends and `with` closes the listening socket.  *)
(* Connections are accepted one after the other.                           *)
(***************************************************************************)
Accept(c) ==
    /\ server_pc = "accept"
    /\ hpc[c] = "listen"
    /\ \A d \in Conns : d < c => hpc[d] # "listen"
    /\ \E s \in StreamsCB : stream' = [stream EXCEPT ![c] = s]
    /\ hpc' = [hpc EXCEPT ![c] = "recv_size"]
    /\ server_pc' = IF running THEN "accept" ELSE "exited"
    /\ UNCHANGED <<trusted_certificates, transactions, audit_log, payload,
                   stored, success, sent, sap_calls, notifications>>
    /\ UNCHANGED <<updated, running, regvars, rsvars, clvars, shvars>>

(***************************************************************************)
(* CarrierBridge.stop_bridge: `self.running = False`, nothing else.  The   *)
(* listening socket is not closed and the server thread is not woken.      *)
(***************************************************************************)
StopBridge ==
    /\ running
    /\ running' = FALSE
    /\ UNCHANGED <<trusted_certificates, transactions, audit_log, hpc, stream, payload,
                   stored, updated, success, sent, sap_calls, notifications, server_pc>>
    /\ UNCHANGED <<regvars, rsvars, clvars, shvars>>

(***************************************************************************)
(* _handle_carrier_connection, size_bytes = conn.recv(4).  recv has no     *)
(* timeout: with nothing sent and the socket open it does not return.      *)
(* Fewer than 4 bytes: return, nothing is written to the connection.       *)
(***************************************************************************)
RecvSize(c) ==
    /\ hpc[c] = "recv_size"
    /\ stream[c].first > 0 \/ ~stream[c].open
    /\ hpc' = [hpc EXCEPT ![c] = IF stream[c].first = PrefixLen
                                  THEN "recv_body" ELSE "closed"]
    /\ UNCHANGED <<trusted_certificates, transactions, audit_log, stream, payload,
                   stored, success, sent, sap_calls, notifications>>
    /\ UNCHANGED <<updated, running, server_pc, regvars, rsvars, clvars, shvars>>

(***************************************************************************)
(* The body loop: recv until payload_size bytes are read or recv returns   *)
(* b'' (the client closed), whatever payload_size is.  A short body        *)
(* answers NACK.                                                           *)
(***************************************************************************)
RecvBody(c) ==
    /\ hpc[c] = "recv_body"
    /\ stream[c].body = stream[c].announced \/ ~stream[c].open
    /\ IF stream[c].body = stream[c].announced
       THEN /\ hpc' = [hpc EXCEPT ![c] = "parse"]
            /\ sent' = sent
       ELSE /\ hpc' = [hpc EXCEPT ![c] = "closed"]
            /\ sent' = [sent EXCEPT ![c] = Append(@, "NACK")]
    /\ UNCHANGED <<trusted_certificates, transactions, audit_log, stream, payload,
                   stored, success, sap_calls, notifications>>
    /\ UNCHANGED <<updated, running, server_pc, regvars, rsvars, clvars, shvars>>

(***************************************************************************)
(* json.loads(payload_data.decode('utf-8')).  JSONDecodeError answers      *)
(* NACK; UnicodeDecodeError is not caught there and reaches the outer      *)
(* except, which only logs.                                                *)
(***************************************************************************)
Parse(c) ==
    /\ hpc[c] = "parse"
    /\ CASE stream[c].content = "not_utf8" ->
              /\ hpc' = [hpc EXCEPT ![c] = "closed"]
              /\ UNCHANGED <<sent, payload>>
         [] stream[c].content = "not_json" ->
              /\ hpc' = [hpc EXCEPT ![c] = "closed"]
              /\ sent' = [sent EXCEPT ![c] = Append(@, "NACK")]
              /\ UNCHANGED payload
         [] OTHER ->
              /\ hpc' = [hpc EXCEPT ![c] = "process"]
              /\ payload' = [payload EXCEPT ![c] = stream[c].payload]
              /\ UNCHANGED sent
    /\ UNCHANGED <<trusted_certificates, transactions, audit_log, stream,
                   stored, success, sap_calls, notifications>>
    /\ UNCHANGED <<updated, running, server_pc, regvars, rsvars, clvars, shvars>>

(***************************************************************************)
(* process_delivery up to the signature check.  A JSON value that is not   *)
(* an object raises in payload.get; the except of process_delivery         *)
(* returns False.                                                          *)
(***************************************************************************)
\* process_delivery without its signature check
delivery_admitted_unchecked(kind, p, trusted) ==
    /\ kind = "json_object"
    /\ p.transaction_id # None

delivery_admitted(kind, p, trusted) ==
    /\ kind = "json_object"
    /\ p.transaction_id # None
    /\ validate_signature(p, trusted)

BeginDelivery(c) ==
    /\ hpc[c] = "process"
    /\ IF delivery_admitted(stream[c].content, payload[c], trusted_certificates)
       THEN /\ hpc' = [hpc EXCEPT ![c] = "store"]
            /\ UNCHANGED success
       ELSE /\ hpc' = [hpc EXCEPT ![c] = "respond"]
            /\ success' = [success EXCEPT ![c] = "False"]
    /\ UNCHANGED <<trusted_certificates, transactions, audit_log, stream, payload,
                   stored, sent, sap_calls, notifications>>
    /\ UNCHANGED <<updated, running, server_pc, regvars, rsvars, clvars, shvars>>

(***************************************************************************)
(* process_delivery, "Store transaction": the handler goes on only when    *)
(* store_transaction returned True.                                        *)
(***************************************************************************)
\* process_delivery going on whatever store_transaction returned
after_store_ignored(ok) == "sap"

after_store(ok) == IF ok THEN "sap" ELSE "respond"

Store(c) ==
    /\ hpc[c] = "store"
    /\ \E io_ok \in BOOLEAN :
         LET ok == store_succeeds(payload[c], io_ok) IN
         /\ transactions' = IF ok
                            THEN store_transaction(transactions, payload[c], Now(c))
                            ELSE transactions
         /\ audit_log' = IF ok
                         THEN log_audit(audit_log, payload[c].transaction_id,
                                        "transaction_stored", Now(c), TRUE)
                         ELSE audit_log
         /\ stored' = [stored EXCEPT ![c] = IF ok THEN "True" ELSE "False"]
         /\ success' = [success EXCEPT ![c] = IF ok THEN @ ELSE "False"]
         /\ hpc' = [hpc EXCEPT ![c] = after_store(ok)]
    /\ UNCHANGED <<trusted_certificates, stream, payload, sent, sap_calls,
                   notifications>>
    /\ UNCHANGED <<updated, running, server_pc, regvars, rsvars, clvars, shvars>>

(***************************************************************************)
(* process_delivery, "Process in SAP": the payload in memory becomes       *)
(* 'delivered', then create_goods_receipt; only with a goods receipt       *)
(* number follow update_purchase_order and release_payment, whose results  *)
(* are not looked at.  Without a number process_delivery returns False.    *)
(***************************************************************************)
\* what the three SAP requests of one delivery answer: all succeed, the goods
\* receipt fails (nothing else is called), or both follow-up requests fail
SapOutcomes ==
    { [goods_receipt |-> TRUE, purchase_order |-> TRUE, payment |-> TRUE],
      [goods_receipt |-> TRUE, purchase_order |-> FALSE, payment |-> FALSE],
      [goods_receipt |-> FALSE, purchase_order |-> FALSE, payment |-> FALSE] }

SapCall(op, c, tid, ok) == [op |-> op, conn |-> c, transaction_id |-> tid, ok |-> ok]

SapProcess(c) ==
    /\ hpc[c] = "sap"
    /\ payload' = [payload EXCEPT ![c].status = "delivered"]
    /\ \E o \in SapOutcomes :
         LET tid == payload[c].transaction_id IN
         IF o.goods_receipt
         THEN /\ sap_calls' = sap_calls \cup
                     { SapCall("create_goods_receipt", c, tid, TRUE),
                       SapCall("update_purchase_order", c, tid, o.purchase_order),
                       SapCall("release_payment", c, tid, o.payment) }
              /\ hpc' = [hpc EXCEPT ![c] = "update_status"]
              /\ UNCHANGED success
         ELSE /\ sap_calls' = sap_calls \cup
                     { SapCall("create_goods_receipt", c, tid, FALSE) }
              /\ hpc' = [hpc EXCEPT ![c] = "respond"]
              /\ success' = [success EXCEPT ![c] = "False"]
    /\ UNCHANGED <<trusted_certificates, transactions, audit_log, stream,
                   stored, sent, notifications>>
    /\ UNCHANGED <<updated, running, server_pc, regvars, rsvars, clvars, shvars>>

(***************************************************************************)
(* process_delivery, update_transaction_status(transaction_id,             *)
(* 'confirmed'); the return value (updated) is not looked at.  io_ok =     *)
(* FALSE is a sqlite3 error inside the method.                             *)
(***************************************************************************)
UpdateStatus(c) ==
    /\ hpc[c] = "update_status"
    /\ \E io_ok \in BOOLEAN :
         LET tid == payload[c].transaction_id
             hit == io_ok /\ transactions[tid] # NoRow IN
         /\ transactions' = IF io_ok
                            THEN update_transaction_status(transactions, tid,
                                                           "confirmed", Now(c))
                            ELSE transactions
         /\ audit_log' = IF hit
                         THEN log_audit(audit_log, tid, "status_updated", Now(c), TRUE)
                         ELSE audit_log
         /\ updated' = [updated EXCEPT ![c] = IF hit THEN "True" ELSE "False"]
    /\ hpc' = [hpc EXCEPT ![c] = "notify"]
    /\ UNCHANGED <<trusted_certificates, stream, payload, stored, success, sent,
                   sap_calls, notifications>>
    /\ UNCHANGED <<running, server_pc, regvars, rsvars, clvars, shvars>>

(***************************************************************************)
(* _notify_shipper_completion: one connect + send + recv with a 10 s       *)
(* timeout; every failure is logged and swallowed.  process_delivery then  *)
(* returns True.  The method has no loop: each call is attempt 1.          *)
(***************************************************************************)
NotifyShipper(c) ==
    /\ hpc[c] = "notify"
    /\ \E reply \in {"ACK", "unreachable"} :
         notifications' = notifications \cup
             { [conn |-> c, transaction_id |-> payload[c].transaction_id,
                status |-> "confirmed", attempt |-> 1, reply |-> reply] }
    /\ success' = [success EXCEPT ![c] = "True"]
    /\ hpc' = [hpc EXCEPT ![c] = "respond"]
    /\ UNCHANGED <<trusted_certificates, transactions, audit_log, stream, payload,
                   stored, sent, sap_calls>>
    /\ UNCHANGED <<updated, running, server_pc, regvars, rsvars, clvars, shvars>>

(***************************************************************************)
(* _handle_carrier_connection, "Send response", and the end of `with       *)
(* conn`, which closes the socket.                                         *)
(***************************************************************************)
response_for(ok) == IF ok = "True" THEN "ACK" ELSE "NACK"

Respond(c) ==
    /\ hpc[c] = "respond"
    /\ sent' = [sent EXCEPT ![c] = Append(@, response_for(success[c]))]
    /\ hpc' = [hpc EXCEPT ![c] = "closed"]
    /\ UNCHANGED <<trusted_certificates, transactions, audit_log, stream, payload,
                   stored, success, sap_calls, notifications>>
    /\ UNCHANGED <<updated, running, server_pc, regvars, rsvars, clvars, shvars>>

NextCB ==
    \E c \in Conns :
        \/ Accept(c)
        \/ RecvSize(c)
        \/ RecvBody(c)
        \/ Parse(c)
        \/ BeginDelivery(c)
        \/ Store(c)
        \/ SapProcess(c)
        \/ UpdateStatus(c)
        \/ NotifyShipper(c)
        \/ Respond(c)

(***************************************************************************)
(* Part II.  ReceiverServer and BlueShipsSyncBridge                        *)
(* (src/nfc-logistics-system/backend/receiver_bridge.py) and their client  *)
(* ShipperServer.send_to_bridge (src/nfc-logistics-system/backend/         *)
(* shipper.py).                                                            *)
(***************************************************************************)

\* the only carrier of the model
Carriers == {"CARRIER-1"}

(***************************************************************************)
(* Payloads of this system: payload['transaction']['id'],                  *)
(* erp_identifiers.shipper.company_id, the document body and the security  *)
(* section with the signer's public key and the signature.  A signature is *)
(* the pair of the signing key and the bytes signed.                       *)
(***************************************************************************)
Canonical(p) == <<p.transaction_id, p.company_id, p.body>>

Sign(key, bytes) == [key |-> key, over |-> bytes]

NoSignature == Sign(None, <<None, None, 0>>)

\* public_key.verify(signature, payload_bytes, ECDSA(SHA256))
Verify(public_key, signature, bytes) ==
    signature.key = public_key /\ signature.over = bytes

Signed(tid, company, b, key) ==
    [transaction_id |-> tid, company_id |-> company, body |-> b, public_key |-> key,
     digital_signature |-> Sign(key, <<tid, company, b>>)]

\* the key pair of the registered shipper and the key pair of anybody else
ShipperKey == "KEY-SHIPPER001"
OtherKey == "KEY-OTHER"

(***************************************************************************)
(* ShipperServer.generate_payload builds the nested document               *)
(* {'transaction': {'id': ...}, ...}, signs it with DigitalSigner and      *)
(* wraps it in a ShipmentPayload.  send_to_bridge sends asdict(payload):   *)
(* the dataclass has the fields transaction_id, status, timestamp and      *)
(* location in place of the section 'transaction', so on the wire          *)
(* payload['transaction']['id'] is absent and the serialized bytes are not *)
(* those that were signed.                                                 *)
(***************************************************************************)
generate_payload(tid, b) == Signed(tid, "SHIPPER001", b, ShipperKey)

asdict(p) == [p EXCEPT !.transaction_id = None]

RSPayloads ==
    { Signed("TXN-1", "SHIPPER001", b, ShipperKey) : b \in Bodies }
    \cup { Signed("TXN-2", "SHIPPER001", 1, ShipperKey),
           Signed("TXN-1", "SHIPPER999", 1, OtherKey),
           [Signed("TXN-1", "SHIPPER001", 1, ShipperKey) EXCEPT !.body = MaxBody + 1],
           [Signed("TXN-1", "SHIPPER001", 1, ShipperKey)
               EXCEPT !.digital_signature = NoSignature],
           asdict(generate_payload("TXN-1", 1)) }

NoRSPayload == [Signed(None, None, 0, None) EXCEPT !.digital_signature = NoSignature]

(***************************************************************************)
(* SignatureValidator.validate_signature (static): verifies the signature  *)
(* over the payload without its security section, with the public key the  *)
(* payload itself carries.                                                 *)
(***************************************************************************)
rs_validate_signature(p) ==
    IF p.digital_signature = NoSignature \/ p.public_key = None
    THEN FALSE
    ELSE Verify(p.public_key, p.digital_signature, Canonical(p))

\* entries of active_transactions and of processed_transactions
ActiveEntry(p, st, at) == [payload |-> p, status |-> st, received_at |-> at]
NoEntry == ActiveEntry(NoRSPayload, None, 0)

\* the message of a connection: the listener it arrived at, how its client
\* behaves after sending, and what the bytes decode to
Message(listener, closes, content, p) ==
    [listener |-> listener, closes |-> closes, content |-> content, payload |-> p]

NoMessage == Message(None, FALSE, "none", NoRSPayload)

RSMessages ==
    { Message("bridge", cl, k, NoRSPayload) :
        cl \in BOOLEAN, k \in {"empty", "not_json", "other_type"} }
    \cup { Message("bridge", cl, "shipment_initiated", p) :
              cl \in BOOLEAN, p \in RSPayloads }
    \cup { Message("nfc", cl, "nfc_delivery", p) : cl \in BOOLEAN, p \in RSPayloads }

\* wire responses
Success == [status |-> "success", error |-> None]
Failure(text) == [status |-> "error", error |-> text]

InitRS ==
    /\ active_transactions = [t \in TxnIds |-> NoEntry]
    /\ processed_transactions = [t \in TxnIds |-> NoEntry]
    /\ websocket_clients = {}
    /\ goods_receipts = {}
    /\ rs_pc = [c \in Conns |-> "listen"]
    /\ rs_msg = [c \in Conns |-> NoMessage]
    /\ rs_sent = [c \in Conns |-> <<>>]
    /\ client = [c \in Conns |-> "idle"]

(***************************************************************************)
(* start_bridge_server / start_nfc_server: accept a connection and start   *)
(* its handler thread.  The client has connected and sent its bytes        *)
(* (send_to_bridge: sock.connect, sock.sendall); a client that shuts down  *)
(* its sending side is half closed, send_to_bridge goes on to sock.recv    *)
(* with the socket open.                                                   *)
(***************************************************************************)
RSAccept(c) ==
    /\ rs_pc[c] = "listen"
    /\ \A d \in Conns : d < c => rs_pc[d] # "listen"
    /\ \E m \in RSMessages :
         /\ rs_msg' = [rs_msg EXCEPT ![c] = m]
         /\ client' = [client EXCEPT ![c] = IF m.closes THEN "half_closed"
                                                        ELSE "await_reply"]
    /\ rs_pc' = [rs_pc EXCEPT ![c] = "recv"]
    /\ UNCHANGED <<active_transactions, processed_transactions, websocket_clients,
                   goods_receipts, rs_sent>>
    /\ UNCHANGED <<cbvars, regvars, clvars, shvars>>

(***************************************************************************)
(* handle_shipper_connection / handle_nfc_receiver, the receive loop:      *)
(* `while True: chunk = recv(BUFFER_SIZE); if not chunk: break`.  It ends  *)
(* only when recv returns b'', that is when the client has closed its      *)
(* sending side; the socket has no timeout.                                *)
(***************************************************************************)
RSRecv(c) ==
    /\ rs_pc[c] = "recv"
    /\ client[c] \in {"half_closed", "done"}
    /\ rs_pc' = [rs_pc EXCEPT ![c] = "handle"]
    /\ UNCHANGED <<active_transactions, processed_transactions, websocket_clients,
                   goods_receipts, rs_msg, rs_sent, client>>
    /\ UNCHANGED <<cbvars, regvars, clvars, shvars>>

(***************************************************************************)
(* ShipperServer.send_to_bridge, `response = sock.recv(BUFFER_SIZE)`: no   *)
(* timeout; returns when the bridge has written its response or closed the *)
(* connection; the `with` block then closes the socket.                    *)
(***************************************************************************)
ClientReceive(c) ==
    /\ client[c] \in {"await_reply", "half_closed"}
    /\ rs_sent[c] # <<>> \/ rs_pc[c] = "closed"
    /\ client' = [client EXCEPT ![c] = "done"]
    /\ UNCHANGED <<active_transactions, processed_transactions, websocket_clients,
                   goods_receipts, rs_pc, rs_msg, rs_sent>>
    /\ UNCHANGED <<cbvars, regvars, clvars, shvars>>

(***************************************************************************)
(* What the handler does with the received bytes before it touches the     *)
(* stores: "raise" (json.loads or a missing key raises: the except clause  *)
(* sends an error with str(e)), "skip" (another message type: nothing is   *)
(* sent), "invalid" (validate_signature returned False) or "accept".       *)
(***************************************************************************)
rs_decision(m) ==
    CASE m.content \in {"empty", "not_json"} -> "raise"
      [] m.content = "other_type" -> "skip"
      [] m.payload.transaction_id = None -> "raise"
      [] ~rs_validate_signature(m.payload) -> "invalid"
      [] OTHER -> "accept"

(***************************************************************************)
(* str(e) of the exception the handler catches: json.loads of no bytes     *)
(* ("empty"), json.loads of a document cut after its first key             *)
(* ("not_json", the bytes {"type"), and the KeyError of                    *)
(* payload['transaction'].                                                 *)
(***************************************************************************)
str_e(m) ==
    CASE m.content = "empty" -> "Expecting value: line 1 column 1 (char 0)"
      [] m.content = "not_json" -> "Expecting ':' delimiter: line 1 column 8 (char 7)"
      [] OTHER -> "'transaction'"

\* the except clause: {'status': 'error', 'error': str(e)}
rs_reply(decision, m) ==
    CASE decision = "raise" -> <<Failure(str_e(m))>>
      [] decision = "invalid" -> <<Failure("Invalid signature")>>
      [] OTHER -> <<>>

(***************************************************************************)
(* handle_shipper_connection from json.loads to the write of               *)
(* bridge.active_transactions[transaction_id].                             *)
(***************************************************************************)
RSHandleShipper(c) ==
    /\ rs_pc[c] = "handle"
    /\ rs_msg[c].listener = "bridge"
    /\ LET d == rs_decision(rs_msg[c])
           p == rs_msg[c].payload IN
       IF d = "accept"
       THEN /\ active_transactions' =
                   [active_transactions EXCEPT ![p.transaction_id] =
                       ActiveEntry(p, "pending_carrier", Now(c))]
            /\ rs_pc' = [rs_pc EXCEPT ![c] = "broadcast"]
            /\ UNCHANGED rs_sent
       ELSE /\ rs_sent' = [rs_sent EXCEPT ![c] = @ \o rs_reply(d, rs_msg[c])]
            /\ rs_pc' = [rs_pc EXCEPT ![c] = "closed"]
            /\ UNCHANGED active_transactions
    /\ UNCHANGED <<processed_transactions, websocket_clients, goods_receipts,
                   rs_msg, client>>
    /\ UNCHANGED <<cbvars, regvars, clvars, shvars>>

(***************************************************************************)
(* handle_shipper_connection, asyncio.run(broadcast_to_carriers(...)) and  *)
(* the response.  With no carrier connected the broadcast does nothing;    *)
(* with carriers it sends on websockets that belong to the event loop of   *)
(* another thread, and only ConnectionClosed is caught: any other          *)
(* exception reaches the except clause of the handler.                     *)
(***************************************************************************)
\* str(e) of what the websocket send raises in the handler's own event loop
BroadcastError == "attached to a different loop"

RSBroadcast(c) ==
    /\ rs_pc[c] = "broadcast"
    /\ \E raised \in BOOLEAN :
         /\ raised => websocket_clients # {}
         /\ rs_sent' = [rs_sent EXCEPT ![c] =
                            Append(@, IF raised THEN Failure(BroadcastError)
                                                ELSE Success)]
    /\ rs_pc' = [rs_pc EXCEPT ![c] = "closed"]
    /\ UNCHANGED <<active_transactions, processed_transactions, websocket_clients,
                   goods_receipts, rs_msg, client>>
    /\ UNCHANGED <<cbvars, regvars, clvars, shvars>>

(***************************************************************************)
(* handle_nfc_receiver from json.loads to sap.trigger_payment_release: the *)
(* mock validate_po is always true and create_goods_receipt always returns *)
(* a fresh GR number.                                                      *)
(***************************************************************************)
RSHandleNfc(c) ==
    /\ rs_pc[c] = "handle"
    /\ rs_msg[c].listener = "nfc"
    /\ LET d == rs_decision(rs_msg[c]) IN
       IF d = "accept"
       THEN /\ goods_receipts' = goods_receipts \cup
                   { [gr_number |-> Now(c),
                      transaction_id |-> rs_msg[c].payload.transaction_id] }
            /\ rs_pc' = [rs_pc EXCEPT ![c] = "nfc_complete"]
            /\ UNCHANGED rs_sent
       ELSE /\ rs_sent' = [rs_sent EXCEPT ![c] = @ \o rs_reply(d, rs_msg[c])]
            /\ rs_pc' = [rs_pc EXCEPT ![c] = "closed"]
            /\ UNCHANGED goods_receipts
    /\ UNCHANGED <<active_transactions, processed_transactions, websocket_clients,
                   rs_msg, client>>
    /\ UNCHANGED <<cbvars, regvars, clvars, shvars>>

(***************************************************************************)
(* handle_nfc_receiver, "Update transaction status", "Store processed      *)
(* transaction" and the response.                                          *)
(***************************************************************************)
RSNfcComplete(c) ==
    /\ rs_pc[c] = "nfc_complete"
    /\ LET p == rs_msg[c].payload
           tid == p.transaction_id IN
       /\ active_transactions' =
              IF active_transactions[tid] # NoEntry
              THEN [active_transactions EXCEPT ![tid].status = "completed"]
              ELSE active_transactions
       /\ processed_transactions' =
              [processed_transactions EXCEPT ![tid] = ActiveEntry(p, None, Now(c))]
    /\ rs_sent' = [rs_sent EXCEPT ![c] = Append(@, Success)]
    /\ rs_pc' = [rs_pc EXCEPT ![c] = "closed"]
    /\ UNCHANGED <<websocket_clients, goods_receipts, rs_msg, client>>
    /\ UNCHANGED <<cbvars, regvars, clvars, shvars>>

(***************************************************************************)
(* BlueShipsSyncBridge.handle_websocket: a carrier connects, reports       *)
(* 'payload_received' or 'delivery_completed' for a transaction id, and    *)
(* disconnects.  Both reports write the status of a known transaction      *)
(* whatever its current status is.                                         *)
(***************************************************************************)
WsConnect(k) ==
    /\ k \notin websocket_clients
    /\ websocket_clients' = websocket_clients \cup {k}
    /\ UNCHANGED <<active_transactions, processed_transactions, goods_receipts,
                   rs_pc, rs_msg, rs_sent, client>>
    /\ UNCHANGED <<cbvars, regvars, clvars, shvars>>

WsDisconnect(k) ==
    /\ k \in websocket_clients
    /\ websocket_clients' = websocket_clients \ {k}
    /\ UNCHANGED <<active_transactions, processed_transactions, goods_receipts,
                   rs_pc, rs_msg, rs_sent, client>>
    /\ UNCHANGED <<cbvars, regvars, clvars, shvars>>

WsPayloadReceived(k, t) ==
    /\ k \in websocket_clients
    /\ active_transactions[t] # NoEntry
    /\ active_transactions' = [active_transactions EXCEPT ![t].status = "in_transit"]
    /\ UNCHANGED <<processed_transactions, websocket_clients, goods_receipts,
                   rs_pc, rs_msg, rs_sent, client>>
    /\ UNCHANGED <<cbvars, regvars, clvars, shvars>>

WsDeliveryCompleted(k, t) ==
    /\ k \in websocket_clients
    /\ active_transactions[t] # NoEntry
    /\ active_transactions' = [active_transactions EXCEPT ![t].status = "delivered"]
    /\ UNCHANGED <<processed_transactions, websocket_clients, goods_receipts,
                   rs_pc, rs_msg, rs_sent, client>>
    /\ UNCHANGED <<cbvars, regvars, clvars, shvars>>

RSHandlerStep(c) ==
    \/ RSRecv(c)
    \/ RSHandleShipper(c)
    \/ RSBroadcast(c)
    \/ RSHandleNfc(c)
    \/ RSNfcComplete(c)

NextRS ==
    \/ \E c \in Conns : RSAccept(c) \/ RSHandlerStep(c) \/ ClientReceive(c)
    \/ \E k \in Carriers : WsConnect(k) \/ WsDisconnect(k)
    \/ \E k \in Carriers, t \in TxnIds :
          WsPayloadReceived(k, t) \/ WsDeliveryCompleted(k, t)

(***************************************************************************)
(* Part III.  ShipperBridge.start_completion_listener and                  *)
(* _handle_completion (src/shipper.py), with the client                    *)
(* CarrierBridge._notify_shipper_completion (src/receiver_bridge.py).      *)
(***************************************************************************)

\* the order of the shipments of the model
Orders == {"ORD-1"}

(***************************************************************************)
(* What a client of the completion port does after connecting.             *)
(*   kind "notification": sendall(json.dumps(completion_data)); whole      *)
(*        tells whether the listener's first recv(4096) returns all of its *)
(*        bytes or only the first segment; order_number is                 *)
(*        payload['shipper_erp']['order_number'] or None.                  *)
(*   kind "not_object": a JSON document that is not an object.             *)
(*   kind "not_json": bytes that are not JSON.                             *)
(*   kind "silent": sends nothing; closes tells whether it closes the      *)
(*        connection or keeps it open.                                     *)
(***************************************************************************)
Notice(kind, whole, closes, order_number) ==
    [kind |-> kind, whole |-> whole, closes |-> closes, order_number |-> order_number]

NoNotice == Notice("none", FALSE, FALSE, None)

Notices ==
    { Notice("notification", w, FALSE, o) : w \in BOOLEAN, o \in Orders \cup {None} }
    \cup { Notice("not_object", TRUE, FALSE, None), Notice("not_json", TRUE, FALSE, None) }
    \cup { Notice("silent", FALSE, cl, None) : cl \in BOOLEAN }

\* outcomes of ERPIntegration.update_order_status: True, False (a
\* RequestException was caught), or no return (session.put has no timeout)
ErpOutcomes == {"True", "False", "no_return"}

InitCL ==
    /\ cl_state = [c \in Conns |-> "idle"]
    /\ cl_notice = [c \in Conns |-> NoNotice]
    /\ cl_pc = "accept"
    /\ cl_cur = 0
    /\ cl_sent = [c \in Conns |-> <<>>]
    /\ notifier = [c \in Conns |-> "idle"]
    /\ erp_orders = [o \in Orders |-> "in_transit"]

(***************************************************************************)
(* A client connects: the connection waits in the backlog of sock.listen(5)*)
(* with the bytes the client has sent.  _notify_shipper_completion goes on *)
(* to sock.recv(1024) under settimeout(10).                                *)
(***************************************************************************)
ClientConnect(c) ==
    /\ cl_state[c] = "idle"
    /\ \A d \in Conns : d < c => cl_state[d] # "idle"
    /\ \E n \in Notices : cl_notice' = [cl_notice EXCEPT ![c] = n]
    /\ cl_state' = [cl_state EXCEPT ![c] = "queued"]
    /\ notifier' = [notifier EXCEPT ![c] = "await_ack"]
    /\ UNCHANGED <<cl_pc, cl_cur, cl_sent, erp_orders>>
    /\ UNCHANGED <<cbvars, regvars, rsvars, shvars>>

\* `conn, addr = sock.accept()` in the loop `while True`: the oldest
\* connection of the backlog
CLAccept(c) ==
    /\ cl_pc = "accept"
    /\ cl_state[c] = "queued"
    /\ \A d \in Conns : d < c => cl_state[d] # "queued"
    /\ cl_state' = [cl_state EXCEPT ![c] = "accepted"]
    /\ cl_cur' = c
    /\ cl_pc' = "recv"
    /\ UNCHANGED <<cl_notice, cl_sent, notifier, erp_orders>>
    /\ UNCHANGED <<cbvars, regvars, rsvars, shvars>>

\* a client that has sent nothing and keeps its connection open
Stalled(c) == cl_notice[c].kind = "silent" /\ ~cl_notice[c].closes

\* json.loads(data.decode('utf-8')) returns: the bytes are a whole JSON document
Loads(n) == n.kind \in {"notification", "not_object"} /\ n.whole

(***************************************************************************)
(* `data = conn.recv(4096)` and `json.loads(data.decode('utf-8'))`, in the *)
(* accept loop itself.  recv has no timeout and returns when bytes have    *)
(* arrived or the client has closed.  When json.loads raises, `with conn`  *)
(* closes the connection, the except clause of the loop logs the error and *)
(* the loop goes back to accept: nothing is written to the connection.     *)
(***************************************************************************)
CLRecv ==
    /\ cl_pc = "recv"
    /\ ~Stalled(cl_cur)
    /\ IF Loads(cl_notice[cl_cur])
       THEN /\ cl_pc' = "handle"
            /\ UNCHANGED <<cl_state, cl_cur>>
       ELSE /\ cl_pc' = "accept"
            /\ cl_state' = [cl_state EXCEPT ![cl_cur] = "closed"]
            /\ cl_cur' = 0
    /\ UNCHANGED <<cl_notice, cl_sent, notifier, erp_orders>>
    /\ UNCHANGED <<cbvars, regvars, rsvars, shvars>>

(***************************************************************************)
(* _handle_completion(completion_data): every exception is caught and      *)
(* logged (completion_data.get of a document that is not an object raises  *)
(* AttributeError).  With an order number it calls                         *)
(* erp.update_order_status(order_number, status) and ignores the result;   *)
(* the status of a notification is "confirmed".  The result is what the    *)
(* handler goes on with: "ack", or "erp_wait" when the ERP call does not   *)
(* return.                                                                 *)
(***************************************************************************)
handle_completion(n, outcome) ==
    CASE n.kind = "not_object" -> "ack"
      [] n.order_number = None -> "ack"
      [] outcome = "no_return" -> "erp_wait"
      [] OTHER -> "ack"

CLHandle ==
    /\ cl_pc = "handle"
    /\ \E outcome \in ErpOutcomes :
         LET n == cl_notice[cl_cur]
             called == n.kind = "notification" /\ n.order_number # None
             next == handle_completion(n, outcome) IN
         /\ ~called => outcome = "True"
         /\ erp_orders' = IF called /\ outcome = "True"
                          THEN [erp_orders EXCEPT ![n.order_number] = "confirmed"]
                          ELSE erp_orders
         /\ cl_pc' = next
    /\ UNCHANGED <<cl_state, cl_notice, cl_cur, cl_sent, notifier>>
    /\ UNCHANGED <<cbvars, regvars, rsvars, shvars>>

\* `conn.sendall(b"ACK")`, the end of `with conn` and the next turn of the loop
CLAck ==
    /\ cl_pc = "ack"
    /\ cl_sent' = [cl_sent EXCEPT ![cl_cur] = Append(@, "ACK")]
    /\ cl_state' = [cl_state EXCEPT ![cl_cur] = "closed"]
    /\ cl_cur' = 0
    /\ cl_pc' = "accept"
    /\ UNCHANGED <<cl_notice, notifier, erp_orders>>
    /\ UNCHANGED <<cbvars, regvars, rsvars, shvars>>

\* the loop cannot go on: it waits in recv for a client that sends nothing,
\* or in session.put for an ERP that does not answer
ListenerBlocked ==
    \/ cl_pc = "recv" /\ Stalled(cl_cur)
    \/ cl_pc = "erp_wait"

(***************************************************************************)
(* _notify_shipper_completion, `response = sock.recv(1024)`: returns the   *)
(* listener's bytes, or b'' when the listener closed the connection.       *)
(***************************************************************************)
NotifierReceive(c) ==
    /\ notifier[c] = "await_ack"
    /\ cl_notice[c].kind # "silent"
    /\ cl_state[c] = "closed"
    /\ notifier' = [notifier EXCEPT ![c] = IF cl_sent[c] = <<"ACK">> THEN "acked"
                                                                    ELSE "unexpected"]
    /\ UNCHANGED <<cl_state, cl_notice, cl_pc, cl_cur, cl_sent, erp_orders>>
    /\ UNCHANGED <<cbvars, regvars, rsvars, shvars>>

(***************************************************************************)
(* _notify_shipper_completion, sock.settimeout(10): recv raises            *)
(* socket.timeout when nothing has come back ten seconds after the send,   *)
(* which is when the listener does not get to this connection.  The        *)
(* exception is logged and the socket closed.                              *)
(***************************************************************************)
NotifierTimeout(c) ==
    /\ notifier[c] = "await_ack"
    /\ cl_notice[c].kind # "silent"
    /\ cl_state[c] # "closed"
    /\ ListenerBlocked
    /\ notifier' = [notifier EXCEPT ![c] = "timed_out"]
    /\ UNCHANGED <<cl_state, cl_notice, cl_pc, cl_cur, cl_sent, erp_orders>>
    /\ UNCHANGED <<cbvars, regvars, rsvars, shvars>>

ListenerStep ==
    \/ \E c \in Conns : CLAccept(c)
    \/ CLRecv
    \/ CLHandle
    \/ CLAck

NextCL ==
    \/ ListenerStep
    \/ \E c \in Conns : ClientConnect(c) \/ NotifierReceive(c) \/ NotifierTimeout(c)

(***************************************************************************)
(* Part IV.  ShipperBridge.process_shipment (src/shipper.py).              *)
(***************************************************************************)
ShipOrders == {"SO-2024-001", "SO-2024-002"}

(***************************************************************************)
(* What send_to_carrier gets from sock.recv(1024) after sending the frame: *)
(* the bridge's "ACK" or "NACK", "" when the bridge closed the connection  *)
(* without answering, "exception" when connect, sendall or recv raised     *)
(* (refused, timeout after 30 s).                                          *)
(***************************************************************************)
CarrierAnswers == {"ACK", "NACK", "", "exception"}

InitPS ==
    /\ ps_erp = [o \in ShipOrders |-> "pending_shipment"]
    /\ ps_pc = "idle"
    /\ ps_order = None
    /\ ps_reply = [o \in ShipOrders |-> None]
    /\ ps_result = [o \in ShipOrders |-> None]

\* ERPIntegration.update_order_status: the PUT succeeds and the ERP holds
\* the new status (True), or RequestException is caught (False)
update_order_status(erp, order_number, status, put_ok) ==
    IF put_ok THEN [erp EXCEPT ![order_number] = status] ELSE erp

\* ShipperBridge.send_to_carrier: True only for the answer "ACK"
send_to_carrier(answer) == answer = "ACK"

\* process_shipment(order_number, carrier_info) is called
PSCall(o) ==
    /\ ps_pc = "idle"
    /\ ps_result[o] = None
    /\ ps_order' = o
    /\ ps_pc' = "create_payload"
    /\ UNCHANGED <<ps_erp, ps_reply, ps_result>>
    /\ UNCHANGED <<cbvars, regvars, rsvars, clvars, mrvars>>

\* payload = create_payload(...); `if not payload: return False`
PSCreatePayload ==
    /\ ps_pc = "create_payload"
    /\ \E created \in BOOLEAN :
         IF created
         THEN /\ ps_pc' = "update_erp"
              /\ UNCHANGED <<ps_order, ps_result>>
         ELSE /\ ps_pc' = "idle"
              /\ ps_order' = None
              /\ ps_result' = [ps_result EXCEPT ![ps_order] = "False"]
    /\ UNCHANGED <<ps_erp, ps_reply>>
    /\ UNCHANGED <<cbvars, regvars, rsvars, clvars, mrvars>>

\* `if not self.erp.update_order_status(order_number, "in_transit")`: only a warning
PSUpdateErp ==
    /\ ps_pc = "update_erp"
    /\ \E put_ok \in BOOLEAN :
         ps_erp' = update_order_status(ps_erp, ps_order, "in_transit", put_ok)
    /\ ps_pc' = "send"
    /\ UNCHANGED <<ps_order, ps_reply, ps_result>>
    /\ UNCHANGED <<cbvars, regvars, rsvars, clvars, mrvars>>

\* `if self.send_to_carrier(payload): return True`
PSSend ==
    /\ ps_pc = "send"
    /\ \E answer \in CarrierAnswers :
         /\ ps_reply' = [ps_reply EXCEPT ![ps_order] = answer]
         /\ IF send_to_carrier(answer)
            THEN /\ ps_pc' = "idle"
                 /\ ps_order' = None
                 /\ ps_result' = [ps_result EXCEPT ![ps_order] = "True"]
            ELSE /\ ps_pc' = "rollback"
                 /\ UNCHANGED <<ps_order, ps_result>>
    /\ UNCHANGED ps_erp
    /\ UNCHANGED <<cbvars, regvars, rsvars, clvars, mrvars>>

\* else: self.erp.update_order_status(order_number, "pending_shipment")
\* (its return value is not read); return False
PSRollback ==
    /\ ps_pc = "rollback"
    /\ \E put_ok \in BOOLEAN :
         ps_erp' = update_order_status(ps_erp, ps_order, "pending_shipment", put_ok)
    /\ ps_pc' = "idle"
    /\ ps_order' = None
    /\ ps_result' = [ps_result EXCEPT ![ps_order] = "False"]
    /\ UNCHANGED ps_reply
    /\ UNCHANGED <<cbvars, regvars, rsvars, clvars, mrvars>>

NextPS ==
    \/ \E o \in ShipOrders : PSCall(o)
    \/ PSCreatePayload
    \/ PSUpdateErp
    \/ PSSend
    \/ PSRollback

(***************************************************************************)
(* Part V.  ERPIntegrationBase._make_request                               *)
(* (src/nfc_logistics_system/backend/common/erp_integration.py).           *)
(***************************************************************************)
\* largest retry_attempts of the configurations of the model
MaxRetry == 3

\* the subclasses of RequestException an attempt can end with
RequestExceptions == {"ConnectionError", "Timeout", "HTTPError"}

\* response.json() of a successful attempt
Responses == {"response-1", "response-2"}

\* ERPConfig.retry_attempts is an int that nothing validates
RetryAttempts == 0..MaxRetry

\* ERPConfig: retry_attempts: int = 3
DefaultRetryAttempts == 3

InitMR ==
    /\ mr_retry_attempts = DefaultRetryAttempts
    /\ mr_pc = "idle"
    /\ mr_attempt = 0
    /\ mr_log = <<>>
    /\ mr_result = None

\* _make_request is called on an integration configured with retry_attempts = r
MRCall(r) ==
    /\ mr_pc = "idle"
    /\ mr_retry_attempts' = r
    /\ mr_attempt' = 0
    /\ mr_pc' = "for"
    /\ UNCHANGED <<mr_log, mr_result>>
    /\ UNCHANGED <<cbvars, regvars, rsvars, clvars, psvars>>

\* `for attempt in range(self.config.retry_attempts)`: the next value, or
\* the end of the loop and with it of the function body (returns None)
MRFor ==
    /\ mr_pc = "for"
    /\ IF mr_attempt < mr_retry_attempts
       THEN /\ mr_pc' = "request"
            /\ UNCHANGED mr_result
       ELSE /\ mr_pc' = "returned"
            /\ mr_result' = None
    /\ UNCHANGED <<mr_retry_attempts, mr_attempt, mr_log>>
    /\ UNCHANGED <<cbvars, regvars, rsvars, clvars, psvars>>

\* session.request(...), raise_for_status(), `return response.json()`
MRRequestOk(resp) ==
    /\ mr_pc = "request"
    /\ mr_pc' = "returned"
    /\ mr_result' = resp
    /\ UNCHANGED <<mr_retry_attempts, mr_attempt, mr_log>>
    /\ UNCHANGED <<cbvars, regvars, rsvars, clvars, psvars>>

\* except RequestException: warning; on the last attempt raise
\* ERPIntegrationError, otherwise go on to time.sleep
MRRequestFails(e) ==
    /\ mr_pc = "request"
    /\ mr_log' = Append(mr_log, [attempt |-> mr_attempt + 1, error |-> e])
    /\ IF mr_attempt = mr_retry_attempts - 1
       THEN /\ mr_pc' = "raised"
            /\ mr_result' = "ERPIntegrationError"
       ELSE /\ mr_pc' = "sleep"
            /\ UNCHANGED mr_result
    /\ UNCHANGED <<mr_retry_attempts, mr_attempt>>
    /\ UNCHANGED <<cbvars, regvars, rsvars, clvars, psvars>>

\* time.sleep(2 ** attempt), then the next turn of the loop
MRSleep ==
    /\ mr_pc = "sleep"
    /\ mr_attempt' = mr_attempt + 1
    /\ mr_pc' = "for"
    /\ UNCHANGED <<mr_retry_attempts, mr_log, mr_result>>
    /\ UNCHANGED <<cbvars, regvars, rsvars, clvars, psvars>>

NextMR ==
    \/ \E r \in RetryAttempts : MRCall(r)
    \/ MRFor
    \/ \E resp \in Responses : MRRequestOk(resp)
    \/ \E e \in RequestExceptions : MRRequestFails(e)
    \/ MRSleep

(***************************************************************************)
(* Specifications.  Spec is the CarrierBridge, SpecRS the ReceiverServer;  *)
(* FairSpecRS adds that a handler thread or a client that can take a step  *)
(* eventually takes it.                                                    *)
(***************************************************************************)
vars == <<cbvars, regvars, rsvars, clvars, shvars>>

Init == InitCB /\ InitRS /\ InitCL /\ InitPS /\ InitMR

\* the bridge starts with whatever is at trusted_shippers_path
InitStart ==
    /\ \E f \in ProvisionedFiles : \E write_ok \in BOOLEAN : StartCB(f, write_ok)
    /\ InitRS
    /\ InitCL
    /\ InitPS
    /\ InitMR

Next == NextCB

Spec == Init /\ [][Next]_vars

SpecRS == Init /\ [][NextRS]_vars

SpecStart == InitStart /\ [][Next]_vars

\* a caller of process_shipment
SpecPS == Init /\ [][NextPS]_vars

\* a caller of _make_request
SpecMR == Init /\ [][NextMR]_vars

\* the CarrierBridge with a caller of stop_bridge
NextStop == NextCB \/ StopBridge

SpecStop == Init /\ [][NextStop]_vars

FairSpecRS ==
    /\ SpecRS
    /\ \A c \in Conns : WF_vars(RSHandlerStep(c)) /\ WF_vars(ClientReceive(c))

\* the completion listener of the shipper
SpecCL == Init /\ [][NextCL]_vars

\* the listener loop and a notifier take a step they can take
FairSpecCL ==
    /\ SpecCL
    /\ WF_vars(ListenerStep)
    /\ \A c \in Conns : WF_vars(NotifierReceive(c)) /\ WF_vars(NotifierTimeout(c))

(***************************************************************************)
(* Properties of the CarrierBridge.                                        *)
(***************************************************************************)
StatusRank(st) ==
    CASE st = "initiated" -> 1
      [] st = "in_transit" -> 2
      [] st = "delivered" -> 3
      [] st = "confirmed" -> 4
      [] OTHER -> 0

\* a status may stay, advance along the order, or become rejected
Forward(a, b) == b = "rejected" \/ StatusRank(a) <= StatusRank(b)

\* what handler c has left behind in the store, in SAP or at the shipper
RowsWrittenBy(c) ==
    { t \in TxnIds : transactions[t].received_timestamp = Now(c) }
StatusUpdatesBy(c) ==
    { t \in TxnIds : transactions[t].processed_timestamp = Now(c) }
AuditEntriesBy(c) ==
    { i \in 1..Len(audit_log) : audit_log[i].timestamp = Now(c) }
SapCallsBy(c) == { x \in sap_calls : x.conn = c }
NotificationsBy(c) == { n \in notifications : n.conn = c }

\* C2: the stored status of a transaction only moves forward along
\* initiated -> in_transit -> delivered -> confirmed, or to rejected.
C2_StatusOnlyAdvances ==
    [][\A t \in TxnIds :
          transactions[t] # NoRow =>
              Forward(transactions[t].status, transactions'[t].status)]_vars

\* handler c is about to store a payload whose transaction_id is already
\* stored with a different payload
ConflictingStore(c) ==
    /\ hpc[c] = "store"
    /\ transactions[payload[c].transaction_id] # NoRow
    /\ transactions[payload[c].transaction_id].payload # payload[c]

\* C3: a submission whose transaction_id is stored with a different payload
\* is rejected and leaves the stored record as it was.
C3_ConflictRejected ==
    [][\A c \in Conns :
          (ConflictingStore(c) /\ hpc'[c] # "store") =>
              (transactions' = transactions /\ success'[c] = "False")]_vars

\* two handlers that are in flight together, for the same transaction_id and
\* different payloads, have both been accepted and are about to answer ACK
BothAccepted(c1, c2) ==
    /\ c1 # c2
    /\ hpc[c1] = "respond" /\ hpc[c2] = "respond"
    /\ success[c1] = "True" /\ success[c2] = "True"
    /\ stream[c1].payload.transaction_id = stream[c2].payload.transaction_id
    /\ stream[c1].payload # stream[c2].payload

\* C4: of two concurrent submissions of one transaction_id with different
\* payloads at most one is accepted.
C4_AtMostOneAcceptedWrite ==
    \A c1 \in Conns : \A c2 \in Conns : ~BothAccepted(c1, c2)

\* c1 and then c2 submitted the same signed payload, both were stored and
\* both handlers are done
IdenticalResubmission(c1, c2) ==
    /\ c1 < c2
    /\ hpc[c1] = "closed" /\ hpc[c2] = "closed"
    /\ stream[c1] = stream[c2]
    /\ stored[c1] = "True" /\ stored[c2] = "True"

\* C5: an identical resubmission yields one stored record, ACK for both
\* submissions and at most one further audit entry, a note of the duplicate.
C5_IdempotentResubmission ==
    \A c1 \in Conns : \A c2 \in Conns :
        IdenticalResubmission(c1, c2) =>
            /\ transactions[stream[c1].payload.transaction_id] # NoRow
            /\ sent[c1] = <<"ACK">> /\ sent[c2] = <<"ACK">>
            /\ Cardinality(AuditEntriesBy(c2)) <= 1
            /\ \A i \in AuditEntriesBy(c2) : audit_log[i].action = "duplicate_receipt"

\* C6: a handler writes exactly one response before it closes, never two.
C6_ExactlyOneResponse ==
    \A c \in Conns :
        /\ Len(sent[c]) <= 1
        /\ hpc[c] = "closed" => Len(sent[c]) = 1

\* the submission of handler c reached the signature check and failed it
SignatureRejected(c) ==
    /\ hpc[c] \in {"respond", "closed"}
    /\ stream[c].content = "json_object"
    /\ payload[c].transaction_id # None
    /\ ~validate_signature(payload[c], trusted_certificates)

NothingPersisted(c) ==
    /\ RowsWrittenBy(c) = {}
    /\ StatusUpdatesBy(c) = {}
    /\ AuditEntriesBy(c) = {}

NothingTriggered(c) ==
    /\ SapCallsBy(c) = {}
    /\ NotificationsBy(c) = {}

\* C8: a submission whose signature validation returned false is answered
\* NACK and persists and triggers nothing.
C8_InvalidSignatureNoEffect ==
    \A c \in Conns :
        SignatureRejected(c) =>
            /\ success[c] = "False"
            /\ stored[c] = None
            /\ NothingPersisted(c)
            /\ NothingTriggered(c)
            /\ hpc[c] = "closed" => sent[c] = <<"NACK">>

C8_Witness ==
    \E c \in Conns :
        /\ SignatureRejected(c)
        /\ hpc[c] = "closed"
        /\ sent[c] = <<"NACK">>
        /\ \E t \in TxnIds : transactions[t] # NoRow

\* the frame of connection c cannot be decoded
DecodeFails(c) ==
    \/ stream[c].first < PrefixLen
    \/ stream[c].body < stream[c].announced
    \/ stream[c].content \in {"not_utf8", "not_json"}

\* C9: a frame that cannot be decoded is answered NACK and persists nothing.
C9_DecodeFailureNack ==
    \A c \in Conns :
        (hpc[c] = "closed" /\ DecodeFails(c)) =>
            /\ sent[c] = <<"NACK">>
            /\ NothingPersisted(c)

\* C10: when store_transaction fails for a validated submission the handler
\* answers NACK and makes no SAP call, status update or notification.
C10_StoreFailureStops ==
    \A c \in Conns :
        stored[c] = "False" =>
            /\ hpc[c] \in {"respond", "closed"}
            /\ success[c] = "False"
            /\ StatusUpdatesBy(c) = {}
            /\ NothingTriggered(c)
            /\ hpc[c] = "closed" => sent[c] = <<"NACK">>

C10_Witness ==
    \E c \in Conns :
        /\ stored[c] = "False"
        /\ validate_signature(payload[c], trusted_certificates)
        /\ hpc[c] = "closed"
        /\ sent[c] = <<"NACK">>

(***************************************************************************)
(* Properties of the ReceiverServer.                                       *)
(***************************************************************************)
\* the payloads held by the stores of the two bridges
StoredCarrierPayloads ==
    { transactions[t].payload : t \in { u \in TxnIds : transactions[u] # NoRow } }
StoredReceiverPayloads ==
    { active_transactions[t].payload :
        t \in { u \in TxnIds : active_transactions[u] # NoEntry } }
    \cup { processed_transactions[t].payload :
        t \in { u \in TxnIds : processed_transactions[u] # NoEntry } }

\* C1: every stored transaction was accepted by the signature validator for
\* a sender of the trusted registry before it was written.
C1_StoredOnlyIfTrustedSignature ==
    /\ \A p \in StoredCarrierPayloads :
          validate_signature(p, trusted_certificates)
    /\ \A p \in StoredReceiverPayloads :
          rs_validate_signature(p) /\ p.company_id \in trusted_certificates

\* C7: every connection handler that has started eventually closes its
\* connection, whatever its client does.
C7_HandlersTerminate ==
    \A c \in Conns : (rs_pc[c] = "recv") ~> (rs_pc[c] = "closed")

\* handler c of the CarrierBridge has run validate_signature on its payload
SignatureChecked(c) ==
    /\ hpc[c] \notin {"listen", "recv_size", "recv_body", "parse", "process"}
    /\ stream[c].content = "json_object"
    /\ stream[c].payload.transaction_id # None

\* handler c of the ReceiverServer holds a message that carries a payload
CarriesPayload(c) ==
    /\ rs_pc[c] # "listen"
    /\ rs_msg[c].content \in {"shipment_initiated", "nfc_delivery"}

\* C11: a payload whose claimed sender is not in the trusted registry never
\* validates, whatever signature and key it carries.
C11_UnknownSenderNeverValidates ==
    /\ \A c \in Conns :
          (SignatureChecked(c) /\ stream[c].payload.shipper_id \notin trusted_certificates)
              => ~validate_signature(stream[c].payload, trusted_certificates)
    /\ \A c \in Conns :
          (CarriesPayload(c) /\ rs_msg[c].payload.company_id \notin trusted_certificates)
              => ~rs_validate_signature(rs_msg[c].payload)

\* q is p with another document body or another signature value
Altered(p, q) ==
    /\ p # q
    /\ [q EXCEPT !.body = p.body, !.signature = p.signature] = p

\* C12: when a payload validates, the same payload with a changed body or a
\* changed signature value does not validate.
C12_ValidationDependsOnContent ==
    \A c1 \in Conns : \A c2 \in Conns :
        ( /\ SignatureChecked(c1) /\ SignatureChecked(c2)
          /\ validate_signature(stream[c1].payload, trusted_certificates)
          /\ Altered(stream[c1].payload, stream[c2].payload) )
            => ~validate_signature(stream[c2].payload, trusted_certificates)

\* connection c carries what ShipperServer.send_to_bridge sends for a
\* payload of generate_payload
SentByShipper(c) ==
    /\ rs_pc[c] # "listen"
    /\ rs_msg[c].listener = "bridge"
    /\ rs_msg[c].content = "shipment_initiated"
    /\ \E t \in TxnIds : \E b \in Bodies :
          rs_msg[c].payload = asdict(generate_payload(t, b))

\* C13: a payload signed by generate_payload and sent unchanged by
\* send_to_bridge validates at the ReceiverServer and is accepted.
C13_SignedPayloadValidates ==
    \A c \in Conns :
        SentByShipper(c) =>
            /\ rs_validate_signature(rs_msg[c].payload)
            /\ rs_decision(rs_msg[c]) = "accept"

\* handler c is returning from update_transaction_status
StatusUpdateReturns(c) == hpc[c] = "update_status" /\ hpc'[c] = "notify"

\* C14: update_transaction_status applies a new status only when it is the
\* next step of initiated -> in_transit -> delivered -> confirmed; any
\* other request leaves the stored status as it was.
C14_OnlyNextStepApplied ==
    [][\A c \in Conns :
          StatusUpdateReturns(c) =>
              LET tid == payload[c].transaction_id IN
              \/ transactions'[tid].status = transactions[tid].status
              \/ StatusRank(transactions'[tid].status) =
                     StatusRank(transactions[tid].status) + 1]_vars

\* the audit entries of one transaction, in insertion order
AuditTrail(log, t) == SelectSeq(log, LAMBDA e : e.transaction_id = t)

\* C15: the audit log never shrinks and every change of a stored status
\* adds exactly one audit entry for that transaction.
C15_OneAuditEntryPerTransition ==
    [][/\ Len(audit_log') >= Len(audit_log)
       /\ \A t \in TxnIds :
             transactions'[t].status # transactions[t].status =>
                 Len(AuditTrail(audit_log', t)) = Len(AuditTrail(audit_log, t)) + 1]_vars

\* the completion listener of the shipper acknowledged the notification of
\* handler c
CompletionAcked(c) == \E n \in NotificationsBy(c) : n.reply = "ACK"

\* handler c wrote the status 'confirmed' that transaction t has now
ConfirmedBy(c, t) ==
    /\ transactions[t].status = "confirmed"
    /\ transactions[t].processed_timestamp = Now(c)

\* C16: a transaction is marked confirmed, and its sender answered ACK, only
\* after the shipper acknowledged the completion notification.
C16_CompletedOnlyAfterDownstreamAck ==
    \A c \in Conns :
        /\ (\E t \in TxnIds : ConfirmedBy(c, t)) => CompletionAcked(c)
        /\ success[c] = "True" => CompletionAcked(c)

\* handler c is done and every notification attempt it made found the
\* completion listener unreachable
ForwardingFailed(c) ==
    /\ hpc[c] = "closed"
    /\ NotificationsBy(c) # {}
    /\ \A n \in NotificationsBy(c) : n.reply = "unreachable"

\* C17: when the completion listener is unreachable the stored record is
\* kept, the transaction is not reported completed, the delivery has failed
\* and the failure is in the audit trail.
C17_ForwardingFailureRecorded ==
    \A c \in Conns :
        ForwardingFailed(c) =>
            /\ transactions[payload[c].transaction_id] # NoRow
            /\ success[c] = "False"
            /\ sent[c] # <<"ACK">>
            /\ \E i \in AuditEntriesBy(c) :
                  audit_log[i].transaction_id = payload[c].transaction_id

\* C18: a notification attempt that failed is followed by another attempt:
\* a delivery does not give up after its first failed attempt.
C18_FailedAttemptRetried ==
    \A c \in Conns :
        (hpc[c] \in {"respond", "closed"} /\
          \E n \in NotificationsBy(c) : n.attempt = 1 /\ n.reply = "unreachable")
            => \E n \in NotificationsBy(c) : n.attempt >= 2

\* a SAP request of handler c failed
ErpFailed(c) == \E x \in SapCallsBy(c) : ~x.ok

\* C19: a failed SAP request does not stop a stored delivery: it is still
\* reported as success and answered ACK.
C19_ErpFailureNotFatal ==
    \A c \in Conns :
        (hpc[c] = "closed" /\ stored[c] = "True" /\ ErpFailed(c)) =>
            /\ success[c] = "True"
            /\ sent[c] = <<"ACK">>

\* handler c is done with a valid delivery of a trusted shipper, SAP and the
\* completion listener answered, and no other connection carried the same
\* transaction_id
UndisturbedDelivery(c) ==
    /\ hpc[c] = "closed"
    /\ SignatureChecked(c)
    /\ validate_signature(stream[c].payload, trusted_certificates)
    /\ stored[c] = "True"
    /\ SapCallsBy(c) # {} /\ ~ErpFailed(c)
    /\ CompletionAcked(c)
    /\ \A d \in Conns \ {c} :
          stream[d].payload.transaction_id # stream[c].payload.transaction_id

\* C20: after a valid delivery with a reachable completion listener the
\* transaction is stored and confirmed, the carrier got ACK and the audit
\* trail of the transaction has exactly 3 entries in order of time.
C20_EndToEndAuditTrail ==
    \A c \in Conns :
        UndisturbedDelivery(c) =>
            LET tid == stream[c].payload.transaction_id
                trail == AuditTrail(audit_log, tid) IN
            /\ transactions[tid] # NoRow
            /\ transactions[tid].status = "confirmed"
            /\ sent[c] = <<"ACK">>
            /\ Len(trail) = 3
            /\ \A i \in 1..(Len(trail) - 1) : trail[i].timestamp <= trail[i + 1].timestamp

\* C24: a transaction that is stored stays stored: no step removes its
\* row, whatever status it has and whatever fails afterwards.
C24_StoredNeverRemoved ==
    [][/\ \A t \in TxnIds : transactions[t] # NoRow => transactions'[t] # NoRow
       /\ \A t \in TxnIds :
             active_transactions[t] # NoEntry => active_transactions'[t] # NoEntry
       /\ \A t \in TxnIds :
             processed_transactions[t] # NoEntry => processed_transactions'[t] # NoEntry]_vars

\* one transaction is confirmed, and a delivery that was stored and then
\* failed in SAP has been answered while its row is still there
C24_Witness ==
    /\ \E t \in TxnIds : transactions[t].status = "confirmed"
    /\ \E c \in Conns :
          /\ hpc[c] = "closed"
          /\ stored[c] = "True"
          /\ success[c] = "False"
          /\ transactions[payload[c].transaction_id] # NoRow

\* C27: when store_transaction or update_transaction_status returns True,
\* the table that every handler reads holds the record and the new status.
C27_SuccessMeansCommitted ==
    [][\A c \in Conns :
          LET tid == payload[c].transaction_id IN
          /\ (stored[c] # "True" /\ stored'[c] = "True") =>
                 transactions'[tid] = Row(payload[c], payload[c].status, Now(c), 0)
          /\ (updated[c] # "True" /\ updated'[c] = "True") =>
                 /\ transactions'[tid].status = "confirmed"
                 /\ transactions'[tid].processed_timestamp = Now(c)]_vars

\* handler c got True from both store methods while another handler is
\* about to read and write the table
C27_Witness ==
    \E c \in Conns : \E d \in Conns \ {c} :
        /\ stored[c] = "True" /\ updated[c] = "True"
        /\ transactions[payload[c].transaction_id].status = "confirmed"
        /\ hpc[d] = "store"

\* the successful SAP requests of one kind for one transaction
SapDone(op, t) ==
    { x \in sap_calls : x.op = op /\ x.ok /\ x.transaction_id = t }

\* C30: for one transaction id at most one goods receipt is created and
\* payment is released at most once, however often it is delivered.
C30_OneGoodsReceiptPerTransaction ==
    \A t \in TxnIds :
        /\ Cardinality(SapDone("create_goods_receipt", t)) <= 1
        /\ Cardinality(SapDone("release_payment", t)) <= 1

\* the client of c sent one whole frame with a JSON object as its body
CompleteFrame(c) ==
    /\ hpc[c] # "listen"
    /\ stream[c].body = stream[c].announced
    /\ stream[c].content = "json_object"

\* C22: a whole frame is decoded to the payload that was framed, however
\* the transport splits it, and only a completely read and parsed body is
\* handed to process_delivery.
C22_FramingRoundTrip ==
    \A c \in Conns :
        /\ (CompleteFrame(c) /\ hpc[c] = "closed") =>
               [payload[c] EXCEPT !.status = stream[c].payload.status] = stream[c].payload
        /\ hpc[c] \in {"process", "store", "sap", "update_status", "notify", "respond"} =>
               /\ stream[c].first = PrefixLen
               /\ stream[c].body = stream[c].announced
               /\ stream[c].content \in {"json_object", "json_list"}

\* the frame of connection c announces more than the largest body allowed
Oversized(c) == stream[c].announced > BodyLen

\* C23: a frame that announces more than the maximum is answered NACK
\* without its body being read.
C23_OversizedFrameRejected ==
    \A c \in Conns :
        Oversized(c) =>
            /\ hpc[c] \in {"listen", "recv_size", "recv_body", "closed"}
            /\ payload[c] = NoPayload
            /\ hpc[c] = "closed" => sent[c] = <<"NACK">>

\* C25: the bridge never writes the registry: the file and the trusted
\* senders are what was provisioned.
C25_RegistryOnlyRead ==
    /\ trusted_shippers_file = provisioned
    /\ trusted_certificates \subseteq provisioned.ids

\* the algorithm identifier that the shipper's signer writes
SupportedAlgorithms == {"RSA-SHA256"}

\* C26: a payload that names an algorithm the validator does not implement
\* does not validate.
C26_UnsupportedAlgorithmRejected ==
    \A c \in Conns :
        (SignatureChecked(c) /\ stream[c].payload.algorithm \notin SupportedAlgorithms)
            => ~validate_signature(stream[c].payload, trusted_certificates)

(***************************************************************************)
(* C29.  The wire response to a failed submission depends only on the      *)
(* class of the failure, never on the text of the internal exception: two  *)
(* failing submissions of the same class receive the same response.        *)
(* The classes: "framing" (the bytes are not a JSON document), "processing"*)
(* (a document the handler cannot process), "signature" (validation        *)
(* returned False).                                                        *)
(***************************************************************************)
FailureClass(m) ==
    CASE m.content \in {"empty", "not_json"} -> "framing"
      [] rs_decision(m) = "raise" -> "processing"
      [] rs_decision(m) = "invalid" -> "signature"
      [] OTHER -> "none"

FailedSubmission(c) ==
    /\ rs_pc[c] = "closed"
    /\ rs_decision(rs_msg[c]) \in {"raise", "invalid"}

C29_ResponseDependsOnFailureClassOnly ==
    \A c, d \in Conns :
        ( /\ FailedSubmission(c)
          /\ FailedSubmission(d)
          /\ FailureClass(rs_msg[c]) = FailureClass(rs_msg[d]) )
        => rs_sent[c] = rs_sent[d]

(***************************************************************************)
(* C21.  A listener's accept loop is never blocked by the handling of one  *)
(* client: while one accepted connection is still being processed, another *)
(* pending connection is accepted.  For the completion listener: a         *)
(* connection waiting in the backlog is eventually accepted.               *)
(***************************************************************************)
C21_PendingConnectionAccepted ==
    \A c \in Conns : (cl_state[c] = "queued") ~> (cl_state[c] # "queued")

(***************************************************************************)
(* C28.  For every completion notification delivered to the completion     *)
(* listener, the listener replies ACK exactly once on that connection,     *)
(* whether or not the ERP status update succeeds: a notification whose     *)
(* connection has ended, closed by the listener or given up by the         *)
(* notifier, carries exactly one ACK.                                      *)
(***************************************************************************)
NotificationEnded(c) ==
    /\ cl_notice[c].kind = "notification"
    /\ cl_state[c] = "closed" \/ notifier[c] = "timed_out"

C28_NotificationAckedOnce ==
    \A c \in Conns : NotificationEnded(c) => cl_sent[c] = <<"ACK">>

(***************************************************************************)
(* C31.  The status change of a transaction and its audit entry are        *)
(* written atomically: in no reachable state is a stored or confirmed      *)
(* status committed without its audit entry, or an audit entry present     *)
(* for a transaction whose row was not committed.                          *)
(***************************************************************************)
AuditedAs(t, action) ==
    \E i \in 1..Len(audit_log) :
        audit_log[i].transaction_id = t /\ audit_log[i].action = action

C31_StatusAndAuditAtomic ==
    \A t \in TxnIds :
        /\ transactions[t] # NoRow => AuditedAs(t, "transaction_stored")
        /\ transactions[t].status = "confirmed" => AuditedAs(t, "status_updated")
        /\ (AuditedAs(t, "transaction_stored") \/ AuditedAs(t, "status_updated")) =>
               transactions[t] # NoRow

(***************************************************************************)
(* C32.  Whenever the bridge answers NACK to a submission, that submission *)
(* has written nothing to table transactions: store_transaction did not    *)
(* return True in its handler.                                             *)
(***************************************************************************)
C32_NackLeavesStoreUnchanged ==
    \A c \in Conns :
        (\E i \in 1..Len(sent[c]) : sent[c][i] = "NACK") => stored[c] # "True"

(***************************************************************************)
(* C33.  Whenever the bridge answers ACK to a delivery, the stored status  *)
(* of that transaction is 'confirmed' at the moment the ACK is sent.       *)
(***************************************************************************)
C33_AckMeansConfirmed ==
    [][\A c \in Conns :
          (sent'[c] # sent[c] /\ sent'[c] = Append(sent[c], "ACK")) =>
              transactions[payload[c].transaction_id].status = "confirmed"]_vars

(***************************************************************************)
(* C34.  The status inside the payload that get_transaction returns equals *)
(* the status column of that transaction, in every reachable state.        *)
(***************************************************************************)
C34_PayloadStatusMatchesColumn ==
    \A t \in TxnIds :
        transactions[t] # NoRow =>
            get_transaction(transactions, t).status = transactions[t].status

(***************************************************************************)
(* C36.  When the registry file is missing or cannot be read at startup,   *)
(* the validator trusts no sender: validate_signature returns false for    *)
(* every payload.                                                          *)
(***************************************************************************)
C36_NoRegistryTrustsNobody ==
    provisioned.state \in {"missing", "unreadable"} =>
        \A p \in CBPayloads : ~validate_signature(p, trusted_certificates)

(***************************************************************************)
(* C35.  No field covered by a payload's signature is changed after the    *)
(* signature is computed: the payload that the receiver forwards after     *)
(* validation (to SAP and in the completion message) is field for field    *)
(* the one it received and validated.                                      *)
(***************************************************************************)
Forwarded(c) == SapCallsBy(c) # {} \/ NotificationsBy(c) # {}

C35_SignedFieldsUnchanged ==
    \A c \in Conns : Forwarded(c) => payload[c] = stream[c].payload

(***************************************************************************)
(* C39.  After stop_bridge has been called the bridge accepts and          *)
(* processes no further connection: no handler thread is started for a     *)
(* connection that arrives after the stop.                                 *)
(***************************************************************************)
C39_NoHandlerAfterStop ==
    [][~running => \A c \in Conns : hpc[c] = "listen" => hpc'[c] = "listen"]_vars

(***************************************************************************)
(* C37.  process_shipment returns true only if the carrier bridge answered *)
(* exactly ACK; when sending fails it returns false and the ERP order      *)
(* status is set back from in_transit to pending_shipment, so after a      *)
(* failed shipment the ERP never shows the order as in_transit.            *)
(***************************************************************************)
C37_FailedShipmentNotInTransit ==
    \A o \in ShipOrders :
        /\ ps_result[o] = "True" => ps_reply[o] = "ACK"
        /\ ps_result[o] = "False" => ps_erp[o] # "in_transit"

(***************************************************************************)
(* C38.  _make_request terminates for every configuration: it makes at     *)
(* most retry_attempts HTTP attempts, returns the parsed response of the   *)
(* first successful attempt, and when every attempt fails it raises        *)
(* ERPIntegrationError after the last one; it never returns without        *)
(* either a response or an error.                                          *)
(***************************************************************************)
HttpAttempts == Len(mr_log) + (IF mr_pc = "returned" /\ mr_result \in Responses THEN 1 ELSE 0)

C38_ResponseOrError ==
    /\ mr_pc # "idle" => HttpAttempts <= mr_retry_attempts
    /\ mr_pc = "returned" => mr_result \in Responses
    /\ mr_pc = "raised" => mr_result = "ERPIntegrationError" /\ Len(mr_log) = mr_retry_attempts

====
